---- MODULE Spec2Model ----
(***************************************************************************)
(* Model of evaluate.py: the (scale, quality) sweep over discovered image  *)
(* files, the variant resize arithmetic, the artifact naming and the       *)
(* greedy word wrap of the comparison renderer.                            *)
(*                                                                         *)
(* Text is modelled as sequences of one-character strings, so that         *)
(* formatting, splitting and joining are computed character by character.  *)
(* Python floats are IEEE-754 doubles; the products the code truncates     *)
(* with int() are computed bit by bit (53-bit significand, round to        *)
(* nearest even).                                                          *)
(***************************************************************************)
EXTENDS Integers, Sequences, FiniteSets, TLC

VARIABLES
    image_files,     \* main: the list of discovered image paths
    img,             \* main: index into image_files of the image in progress
    si,              \* main: index into scales
    qi,              \* run_full_quality_cycle: index into the quality list
    pc,              \* position of the sequential program
    results,         \* every record process_file has returned, in order
    json_files,      \* (path, writer) of every JSON document written, in order
    combined_files,  \* (path, writer) of every comparison image written, in order
    enc_calls,       \* process_image invocations per (image, scale, quality)
    req_calls,       \* requests.post invocations per (image, scale, quality)
    encoded,         \* the pairs for which process_image returned a buffer
    aborted,         \* the pairs whose JSON write raised (caught by main, line 389)
    faults,          \* number of non-nominal outcomes the environment produced
    dims,            \* resize check: an image size and what it is resized to
    names,           \* naming check: a (file, scale, quality) and its file name
    wrap             \* wrap check: a response line and the lines drawn for it

vars == <<image_files, img, si, qi, pc, results, json_files, combined_files,
          enc_calls, req_calls, encoded, aborted, faults, dims, names, wrap>>

sweepVars == <<image_files, img, si, qi, pc, results, json_files,
               combined_files, enc_calls, req_calls, encoded, aborted, faults>>

----------------------------------------------------------------------------
(* Bounds of the model *)

\* non-nominal outcomes (of encoding, the endpoint, the JSON write, the
\* rendering) the environment produces in one run
MaxFaults == 1
\* length of a response line given to the word wrap
MaxParagraphLen == 7

----------------------------------------------------------------------------
(* IEEE-754 double arithmetic.  A significand is a little-endian tuple of   *)
(* limbs in base 2^13; the operands are small (divisor below 2^13, factor   *)
(* below 2^12), so every intermediate value fits a machine integer.         *)

Limb == 2^13

RECURSIVE Above(_, _, _)
\* the least k >= 0 with b < w * 2^k
Above(b, w, k) == IF b < w THEN k ELSE Above(b, 2 * w, k + 1)

RECURSIVE Lead(_, _, _)
\* position e of the first 1 bit of r/w (0 < r < w): 2^-e <= r/w < 2^-(e-1)
Lead(r, w, e) ==
    IF 2 * r >= w THEN [e |-> e, rem |-> 2 * r - w]
                  ELSE Lead(2 * r, w, e + 1)

RECURSIVE Carry(_, _, _)
\* propagate carries through limbs t[i], t[i+1], ...
Carry(t, i, c) ==
    IF i > Len(t) THEN (IF c = 0 THEN <<>> ELSE <<c>>)
    ELSE <<(t[i] + c) % Limb>> \o Carry(t, i + 1, (t[i] + c) \div Limb)

RECURSIVE BitLen(_)
BitLen(n) == IF n = 0 THEN 0 ELSE 1 + BitLen(n \div 2)

\* one limb of long division: the next 13 quotient bits of r/w
DivLimb(r, w) == [q |-> (r * Limb) \div w, rem |-> (r * Limb) % w]

\* the double nearest to b / w (b, w > 0): value N * 2^-(e+52), 2^52 <= N <= 2^53
FloatDiv(b, w) ==
    LET k  == Above(b, w, 0)
        W  == w * 2^k
        l  == Lead(b, W, 1)
        s1 == DivLimb(l.rem, W)
        s2 == DivLimb(s1.rem, W)
        s3 == DivLimb(s2.rem, W)
        s4 == DivLimb(s3.rem, W)
        up == 2 * s4.rem > W \/ (2 * s4.rem = W /\ s4.q % 2 = 1)
        N  == <<s4.q + (IF up THEN 1 ELSE 0), s3.q, s2.q, s1.q, 1>>
    IN  [e |-> l.e - k, N |-> Carry(N, 1, 0)]

RECURSIVE ShiftSum(_, _, _)
\* floor(P / 2^sh) for a limb tuple P, added from limb i upwards
ShiftSum(P, i, sh) ==
    IF i > Len(P) THEN 0
    ELSE LET m == 13 * (i - 1) - sh
         IN  (IF m >= 0 THEN P[i] * 2^m
              ELSE IF m > -13 THEN P[i] \div 2^(0 - m)
              ELSE 0)
             + ShiftSum(P, i + 1, sh)

\* int(h * f): the double product of h and f, rounded to nearest even, truncated
FloatMulTrunc(h, f) ==
    LET P    == Carry([i \in 1..5 |-> f.N[i] * h], 1, 0)
        T    == P[5] + (IF Len(P) > 5 THEN Limb * P[6] ELSE 0)
        d    == BitLen(T) - 1
        rem  == P[1] % 2^d
        up   == /\ d > 0
                /\ \/ 2 * rem > 2^d
                   \/ 2 * rem = 2^d /\ (P[1] \div 2^d) % 2 = 1
        Pr   == Carry([P EXCEPT ![1] = P[1] - rem + (IF up THEN 2^d ELSE 0)], 1, 0)
    IN  ShiftSum(Pr, 1, 52 + f.e)

\* int(h * (b / w)) as Python evaluates it
IntMulDiv(h, b, w) == IF h = 0 THEN 0 ELSE FloatMulTrunc(h, FloatDiv(b, w))

----------------------------------------------------------------------------
(* Scales, qualities, effective bound *)

\* a scale factor is the float literal num/den; 1.0 is [num |-> 1, den |-> 1]
scales == << [num |-> 1, den |-> 1], [num |-> 2, den |-> 3], [num |-> 1, den |-> 3] >>

qualities == <<100, 90, 70, 50, 30, 10>>

max_dimension == 896

IsOne(scale) == scale.num = scale.den

\* int(n * scale_factor)
ScaleInt(n, scale) == IntMulDiv(n, scale.num, scale.den)

\* the values int(max_dimension * scale_factor) and int(scale_factor * 100)
\* of the three scale literals, computed once
BoundOf == [i \in 1..Len(scales) |-> ScaleInt(max_dimension, scales[i])]
PercentOf == [i \in 1..Len(scales) |-> ScaleInt(100, scales[i])]

ScaleIndex(scale) == CHOOSE i \in 1..Len(scales) : scales[i] = scale

\* int(max_dimension * scale_factor), lines 28 and 189
effective_max_dimension(scale) == BoundOf[ScaleIndex(scale)]

\* int(scale_factor * 100), lines 285 and 326
scale_percent(scale) == PercentOf[ScaleIndex(scale)]

----------------------------------------------------------------------------
(* Resize arithmetic *)

\* a resize that rounds the shorter side to the nearest integer
VariantSizeRounded(width, height, bound) ==
    IF width > bound \/ height > bound
    THEN IF width > height
         THEN [w |-> bound, h |-> (2 * height * bound + width) \div (2 * width)]
         ELSE [w |-> (2 * width * bound + height) \div (2 * height), h |-> bound]
    ELSE [w |-> width, h |-> height]

\* ImageProcessor.process_image, lines 31-38: the size the variant is resized to
VariantSize(width, height, bound) ==
    IF width > bound \/ height > bound
    THEN IF width > height
         THEN [w |-> bound, h |-> IntMulDiv(height, bound, width)]
         ELSE [w |-> IntMulDiv(width, bound, height), h |-> bound]
    ELSE [w |-> width, h |-> height]

\* create_side_by_side_image: the size the original is displayed at
DisplaySize(width, height, bound) ==
    IF width > height
    THEN IF width > bound
         THEN [w |-> bound, h |-> IntMulDiv(height, bound, width)]
         ELSE [w |-> width, h |-> height]
    ELSE IF height > bound
         THEN [w |-> IntMulDiv(width, bound, height), h |-> bound]
         ELSE [w |-> width, h |-> height]

----------------------------------------------------------------------------
(* Text: strings are sequences of characters; a character is a string of   *)
(* length one                                                              *)

CharAt(s, i) == SubSeq(s, i, i)

Digit == <<"0", "1", "2", "3", "4", "5", "6", "7", "8", "9">>

RECURSIVE str(_)
\* decimal formatting of a natural number, as in an f-string
str(n) == IF n < 10 THEN Digit[n + 1]
          ELSE str(n \div 10) \o Digit[(n % 10) + 1]

\* last position of character c in s, 0 when absent (str.rfind + 1)
rfind(s, c) ==
    LET I == {i \in 1..Len(s) : CharAt(s, i) = c}
    IN  IF I = {} THEN 0 ELSE CHOOSE i \in I : \A j \in I : j <= i

\* s.endswith(t)
endswith(s, t) ==
    /\ Len(s) >= Len(t)
    /\ SubSeq(s, Len(s) - Len(t) + 1, Len(s)) = t

\* t occurs in s as a substring
Contains(s, t) ==
    \E i \in 1..(Len(s) - Len(t) + 1) : SubSeq(s, i, i + Len(t) - 1) = t

LowerChar(c) ==
    CASE c = "J" -> "j" [] c = "P" -> "p" [] c = "G" -> "g"
      [] c = "N" -> "n" [] c = "E" -> "e" [] OTHER -> c

RECURSIVE lower(_)
\* str.lower on the letters that occur in the modelled listings
lower(s) ==
    IF s = "" THEN ""
    ELSE LowerChar(CharAt(s, 1)) \o lower(SubSeq(s, 2, Len(s)))

\* os.path.basename
basename(path) == SubSeq(path, rfind(path, "/") + 1, Len(path))

\* os.path.splitext(filename)[0] for a name without directory part: the
\* extension starts at the last dot unless only dots precede it
splitext_name(filename) ==
    LET d == rfind(filename, ".")
    IN  IF d > 0 /\ \E i \in 1..(d - 1) : CharAt(filename, i) # "."
        THEN SubSeq(filename, 1, d - 1)
        ELSE filename

\* os.path.join(a, b) on POSIX
join(a, b) ==
    IF b # "" /\ CharAt(b, 1) = "/" THEN b
    ELSE IF a = "" \/ CharAt(a, Len(a)) = "/" THEN a \o b
    ELSE a \o "/" \o b

----------------------------------------------------------------------------
(* Artifact names *)

\* args.output_dir
output_dir == "out"

\* run_full_quality_cycle, lines 321-326
json_filename(name, scale, quality) ==
    IF IsOne(scale) /\ quality = 100
    THEN name \o "_original.json"
    ELSE IF IsOne(scale)
    THEN name \o "_q" \o str(quality) \o ".json"
    ELSE name \o "_s" \o str(scale_percent(scale)) \o "_q" \o str(quality) \o ".json"

\* a naming that leaves the quality suffix out for quality 100 at any scale
combined_filename_short(name, scale, quality) ==
    IF IsOne(scale) /\ quality = 100
    THEN name \o "_original_combined.jpg"
    ELSE IF IsOne(scale)
    THEN name \o "_q" \o str(quality) \o "_combined.jpg"
    ELSE IF quality = 100
    THEN name \o "_s" \o str(scale_percent(scale)) \o "_combined.jpg"
    ELSE name \o "_s" \o str(scale_percent(scale)) \o "_q" \o str(quality)
              \o "_combined.jpg"

\* create_side_by_side_image, lines 280-285
combined_filename(name, scale, quality) ==
    IF IsOne(scale) /\ quality = 100
    THEN name \o "_original_combined.jpg"
    ELSE IF IsOne(scale)
    THEN name \o "_q" \o str(quality) \o "_combined.jpg"
    ELSE name \o "_s" \o str(scale_percent(scale)) \o "_q" \o str(quality)
              \o "_combined.jpg"

\* lines 318-319 and 329: the JSON document of a pair
json_path(file_path, scale, quality) ==
    join(output_dir, json_filename(splitext_name(basename(file_path)), scale, quality))

\* lines 277-278 and 287: the comparison image of a pair
combined_path(file_path, scale, quality) ==
    join(output_dir, combined_filename(splitext_name(basename(file_path)), scale, quality))

----------------------------------------------------------------------------
(* File discovery *)

\* main, line 368
IsImageName(file) ==
    \/ endswith(lower(file), ".png")
    \/ endswith(lower(file), ".jpg")
    \/ endswith(lower(file), ".jpeg")

\* main, lines 365-369, over the paths os.walk yields
Discover(listing) == SelectSeq(listing, IsImageName)

\* directory trees the harness is run on
Listings ==
    { <<"in/b.jpeg", "in/notes.txt">>,
      <<"in/a.png", "in/notes.txt", "in/sub/a.JPG">> }

DiscoveredFiles ==
    UNION {{Discover(listing)[k] : k \in 1..Len(Discover(listing))} : listing \in Listings}

\* the artifact paths of every pair of every discovered file, computed once
json_paths ==
    [f \in DiscoveredFiles, s \in 1..Len(scales), q \in 1..Len(qualities) |->
        json_path(f, scales[s], qualities[q])]

combined_paths ==
    [f \in DiscoveredFiles, s \in 1..Len(scales), q \in 1..Len(qualities) |->
        combined_path(f, scales[s], qualities[q])]

----------------------------------------------------------------------------
(* The inference endpoint and process_file *)

\* an Optional[str]: None is the empty tuple, a string s the tuple <<s>>
None == <<>>
Some(s) == <<s>>

Text == "a cat"

\* what the endpoint can do with one request: the call raises (an error
\* status or a body that is no JSON raises inside the same try block and is
\* caught by the same handler), or the body is one of these documents
\* (a dict is a record, the empty dict the empty function)
Replies ==
    << [kind |-> "json", body |-> [choices |-> << [message |-> [content |-> Text]] >>]],
       [kind |-> "ConnectionError"],
       [kind |-> "json", body |-> <<>>],
       [kind |-> "json", body |-> [choices |-> <<>>]],
       [kind |-> "json", body |-> [choices |-> << [message |-> <<>>] >>]],
       [kind |-> "json", body |-> [choices |-> << [text |-> Text] >>]],
       [kind |-> "json", body |-> [choices |-> << <<>> >>]] >>

HasChoice(body) == "choices" \in DOMAIN body /\ Len(body.choices) > 0

\* lines 136-164: the try block raises
Raises(reply) ==
    \/ reply.kind # "json"
    \/ /\ HasChoice(reply.body)
       /\ "message" \in DOMAIN reply.body.choices[1]
       /\ "content" \notin DOMAIN reply.body.choices[1].message

\* str(e) of the exception the try block raises
ErrorText(reply) == IF reply.kind # "json" THEN reply.kind ELSE "KeyError"

\* lines 157-164: the response text taken from a decoded body
ResponseOf(body) ==
    IF HasChoice(body)
    THEN IF "message" \in DOMAIN body.choices[1]
         THEN Some(body.choices[1].message.content)
         ELSE IF "text" \in DOMAIN body.choices[1]
              THEN Some(body.choices[1].text)
              ELSE Some("")
    ELSE None

\* lines 117-125: the request body; the image is the encoded variant
Payload(file_path, quality, scale) ==
    [image |-> <<file_path, quality, scale>>, max_tokens |-> 1024]

\* lines 89-96 and 169-176
FailedResult(file_path, quality, scale, error) ==
    [success |-> FALSE, error |-> error, file_path |-> file_path,
     quality |-> quality, scale_factor |-> scale]

\* lines 148-158 (output_path, timestamp and processing_time are not read by
\* anything modelled here)
SuccessResult(file_path, quality, scale, response) ==
    [success |-> TRUE, file_path |-> file_path,
     quality |-> quality, scale_factor |-> scale,
     payload |-> Payload(file_path, quality, scale), response |-> response]

\* a process_file without the early return of lines 88-96
SendsRequestAlways(image_base64) == TRUE

\* lines 88-96: the request is built and sent only when a buffer came back
SendsRequest(image_base64) == image_base64

\* lines 136-176: the record returned once the request has been sent
RequestResult(file_path, quality, scale, reply) ==
    IF Raises(reply)
    THEN FailedResult(file_path, quality, scale, ErrorText(reply))
    ELSE SuccessResult(file_path, quality, scale, ResponseOf(reply.body))

----------------------------------------------------------------------------
(* The sweep: main and run_full_quality_cycle *)

NoDims == [w |-> 1, h |-> 1, scale |-> 1, via |-> "none", out |-> [w |-> 1, h |-> 1]]

NoNames == [file |-> "", scale |-> 1, quality |-> 1, kind |-> "none", out |-> ""]

NoWrap == [line |-> "", text_width |-> 0, done |-> FALSE, lines |-> <<>>]

PairsPerImage == Len(scales) * Len(qualities)

\* the pairs of all images, numbered in the order the sweep visits them
Pairs(files) == 1..(Len(files) * PairsPerImage)

\* the pair being processed
Pair == ((img - 1) * Len(scales) + (si - 1)) * Len(qualities) + qi

ImageOf(p) == ((p - 1) \div PairsPerImage) + 1

Bump(f, t) == [f EXCEPT ![t] = @ + 1]

\* the loops of lines 310, 385 and 378 move on to the next pair
Advance ==
    IF qi < Len(qualities)
    THEN /\ qi' = qi + 1
         /\ UNCHANGED <<img, si>>
         /\ pc' = "process"
    ELSE IF si < Len(scales)
    THEN /\ si' = si + 1 /\ qi' = 1
         /\ UNCHANGED img
         /\ pc' = "process"
    ELSE IF img < Len(image_files)
    THEN /\ img' = img + 1 /\ si' = 1 /\ qi' = 1
         /\ pc' = "process"
    ELSE /\ UNCHANGED <<img, si, qi>>
         /\ pc' = "done"

\* main, lines 389-390: the exception leaves the scale loop of this image
NextImage ==
    IF img < Len(image_files)
    THEN /\ img' = img + 1 /\ si' = 1 /\ qi' = 1
         /\ pc' = "process"
    ELSE /\ UNCHANGED <<img, si, qi>>
         /\ pc' = "done"

\* a loop body that persists every record
PersistedAlways(result) == TRUE

\* line 316: the record is persisted and rendered
Persisted(result) == result.success

\* LLMProcessor.process_file, lines 80-176: the record it returns when
\* process_image did (image_base64) or did not return a buffer and the
\* endpoint answers with reply
process_file(file_path, quality, scale, image_base64, reply) ==
    IF SendsRequest(image_base64)
    THEN RequestResult(file_path, quality, scale, reply)
    ELSE FailedResult(file_path, quality, scale, "Failed to process image")

\* One iteration of the quality loop, lines 310-341, for the pair in
\* progress.  image_base64: process_image returned a buffer; r: what the
\* endpoint does; written: open/json.dump succeed; rendered: the original
\* can be loaded and the comparison image saved.
ProcessPair(image_base64, r, written, rendered) ==
    LET file_path == image_files[img]
        result    == process_file(file_path, qualities[qi], scales[si],
                                  image_base64, Replies[r])
        cost      == (IF image_base64 THEN 0 ELSE 1) + (IF r = 1 THEN 0 ELSE 1)
                     + (IF written THEN 0 ELSE 1) + (IF rendered THEN 0 ELSE 1)
        writer    == [file |-> file_path, scale |-> scales[si],
                      quality |-> qualities[qi]]
    IN  /\ pc = "process"
        /\ faults + cost <= MaxFaults
        /\ ~image_base64 => r = 1
        /\ ~written => rendered
        /\ ~Persisted(result) => (written /\ rendered)
        /\ faults' = faults + cost
        /\ enc_calls' = Bump(enc_calls, Pair)
        /\ encoded' = IF image_base64 THEN encoded \cup {Pair} ELSE encoded
        /\ req_calls' = IF SendsRequest(image_base64) THEN Bump(req_calls, Pair)
                        ELSE req_calls
        /\ results' = Append(results, result)
        /\ IF Persisted(result)
           THEN IF written
                THEN /\ json_files' = Append(json_files,
                          [path |-> json_paths[file_path, si, qi], writer |-> writer])
                     /\ combined_files' =
                          IF rendered /\ "response" \in DOMAIN result
                                      /\ result.response # None
                          THEN Append(combined_files,
                                      [path |-> combined_paths[file_path, si, qi],
                                       writer |-> writer])
                          ELSE combined_files
                     /\ UNCHANGED aborted
                     /\ Advance
                ELSE /\ aborted' = aborted \cup {writer}
                     /\ UNCHANGED <<json_files, combined_files>>
                     /\ NextImage
           ELSE /\ UNCHANGED <<json_files, combined_files, aborted>>
                /\ Advance
        /\ UNCHANGED <<image_files, dims, names, wrap>>

Init ==
    /\ image_files \in {Discover(listing) : listing \in Listings}
    /\ img = 1 /\ si = 1 /\ qi = 1
    /\ pc = IF image_files = <<>> THEN "done" ELSE "process"
    /\ results = <<>>
    /\ json_files = <<>> /\ combined_files = <<>>
    /\ enc_calls = [p \in Pairs(image_files) |-> 0]
    /\ req_calls = [p \in Pairs(image_files) |-> 0]
    /\ encoded = {}
    /\ aborted = {}
    /\ faults = 0
    /\ dims = NoDims
    /\ names = NoNames
    /\ wrap = NoWrap

\* what the encoder, the JSON write and the rendering can do for the next
\* pair: only the nominal outcome is left once the fault budget is spent
Outcomes == IF faults < MaxFaults THEN BOOLEAN ELSE {TRUE}

\* the replies the endpoint can give to the next request
ReplyChoices == IF faults < MaxFaults THEN 1..Len(Replies) ELSE {1}

Next ==
    \E image_base64 \in Outcomes, r \in ReplyChoices, written \in Outcomes,
       rendered \in Outcomes : ProcessPair(image_base64, r, written, rendered)

Spec == Init /\ [][Next]_vars

----------------------------------------------------------------------------
(* Properties of the sweep *)

\* the (scale, quality) pairs in the order of lines 383 and 310
SweepOrder ==
    [k \in 1..(Len(scales) * Len(qualities)) |->
        <<scales[((k - 1) \div Len(qualities)) + 1],
          qualities[((k - 1) % Len(qualities)) + 1]>>]

ResultsOf(file_path) == SelectSeq(results, LAMBDA rec : rec.file_path = file_path)

PairsOf(recs) == [k \in 1..Len(recs) |-> <<recs[k].scale_factor, recs[k].quality>>]

Key(rec) == [file |-> rec.file_path, scale |-> rec.scale_factor,
             quality |-> rec.quality]

Written == {json_files[k].writer : k \in 1..Len(json_files)}

Count(recs, ok) == Cardinality({k \in 1..Len(recs) : recs[k].success = ok})

\* C1: when the run has ended, the records of each image are those of the
\* 18 (scale, quality) pairs, each once, scale-major and in the order of the
\* quality list.
C1_SweepComplete ==
    pc = "done" =>
        \A i \in 1..Len(image_files) :
            PairsOf(ResultsOf(image_files[i])) = SweepOrder

\* C2: whatever failed while a pair was processed, every pair of every
\* image has been processed when the run ends; and a transport failure on
\* (2/3, 50) leaves 18 records for that image, 17 successful and 1 failed.
C2_FailureConfinedToPair ==
    pc = "done" =>
        /\ \A p \in Pairs(image_files) : enc_calls[p] = 1
        /\ \A i \in 1..Len(image_files) :
              LET recs == ResultsOf(image_files[i])
              IN  (\E k \in 1..Len(recs) :
                      /\ ~recs[k].success
                      /\ recs[k].error = "ConnectionError"
                      /\ recs[k].scale_factor = scales[2]
                      /\ recs[k].quality = 50)
                  => /\ Len(recs) = 18
                     /\ Count(recs, TRUE) = 17
                     /\ Count(recs, FALSE) = 1

\* C3: a successful record carries a response that is not None and the
\* payload sent; a failed record carries no response.
C3_SuccessHasResponse ==
    \A k \in 1..Len(results) :
        LET rec == results[k]
        IN  /\ rec.success => /\ "response" \in DOMAIN rec
                              /\ rec.response # None
                              /\ "payload" \in DOMAIN rec
            /\ ~rec.success => "response" \notin DOMAIN rec

\* C5 as stated: every record, failed or successful, has been handed to the
\* JSON write (which wrote the document or raised) once its pair is over.
C5_EveryRecordForwarded ==
    \A k \in 1..Len(results) : Key(results[k]) \in Written \cup aborted

\* C5 amended: exactly the successful records are handed to the JSON write
\* before the next pair starts: a document is written for each of them
\* unless the write raised, and none for a failed record.
C5_SuccessfulRecordsForwarded ==
    LET handed == Written \cup aborted
        succeeded == {Key(results[k]) : k \in {j \in 1..Len(results) : results[j].success}}
        failed == {Key(results[k]) : k \in {j \in 1..Len(results) : ~results[j].success}}
    IN  /\ handed = succeeded
        /\ handed \cap failed = {}
        /\ Written \cap aborted = {}

C5_Witness ==
    /\ pc = "done"
    /\ \E k \in 1..Len(results) :
          ~results[k].success /\ Key(results[k]) \notin Written
    /\ \E k \in 1..Len(results) :
          results[k].success /\ Key(results[k]) \in Written

C10_NoArtifactOverwritten ==
    /\ \A j, k \in 1..Len(json_files) :
          json_files[j].path = json_files[k].path
             => json_files[j].writer = json_files[k].writer
    /\ \A j, k \in 1..Len(combined_files) :
          combined_files[j].path = combined_files[k].path
             => combined_files[j].writer = combined_files[k].writer

----------------------------------------------------------------------------
(* Checking the resize arithmetic on sampled image sizes *)

SampleDims == {1, 3, 167, 277, 298, 299, 554, 597, 598, 896, 897, 1077, 1080,
               1108, 1920, 2000}

\* process_image, lines 27-39, applied to the sampled size
ProcessImageResize ==
    /\ dims.via = "none"
    /\ dims' = [dims EXCEPT !.via = "variant",
                   !.out = VariantSize(dims.w, dims.h,
                                       effective_max_dimension(scales[dims.scale]))]
    /\ UNCHANGED <<sweepVars, names, wrap>>

\* create_side_by_side_image, lines 187-204, applied to the sampled size
DisplayResize ==
    /\ dims.via = "none"
    /\ dims' = [dims EXCEPT !.via = "display",
                   !.out = DisplaySize(dims.w, dims.h,
                                       effective_max_dimension(scales[dims.scale]))]
    /\ UNCHANGED <<sweepVars, names, wrap>>

NextResize == ProcessImageResize \/ DisplayResize

\* the sweep has not started; used by the checks of the pure computations
SweepIdle ==
    /\ image_files = <<>>
    /\ img = 1 /\ si = 1 /\ qi = 1
    /\ pc = "done"
    /\ results = <<>>
    /\ json_files = <<>> /\ combined_files = <<>>
    /\ enc_calls = <<>> /\ req_calls = <<>>
    /\ encoded = {}
    /\ aborted = {}
    /\ faults = 0

InitResize ==
    /\ SweepIdle
    /\ names = NoNames
    /\ wrap = NoWrap
    /\ dims \in [w : SampleDims, h : SampleDims, scale : 1..Len(scales),
                 via : {"none"}, out : {[w |-> 1, h |-> 1]}]

SpecResize == InitResize /\ [][NextResize]_vars

----------------------------------------------------------------------------
(* Properties of the resize arithmetic *)

Bound == effective_max_dimension(scales[dims.scale])
Longer == IF dims.w > dims.h THEN dims.w ELSE dims.h
Shorter == IF dims.w > dims.h THEN dims.h ELSE dims.w
OutLonger == IF dims.w > dims.h THEN dims.out.w ELSE dims.out.h
OutShorter == IF dims.w > dims.h THEN dims.out.h ELSE dims.out.w
Resized == dims.via # "none" /\ (dims.w > Bound \/ dims.h > Bound)
Abs(x) == IF x < 0 THEN 0 - x ELSE x

\* C6: sizes within the bound are returned unchanged; otherwise both output
\* sides are <= bound, the longer side becomes exactly the bound and the
\* shorter side is less than one pixel away from shorter * bound / longer.
C6_AspectWithinOnePixel ==
    dims.via # "none" =>
        IF dims.w <= Bound /\ dims.h <= Bound
        THEN dims.out = [w |-> dims.w, h |-> dims.h]
        ELSE /\ dims.out.w <= Bound /\ dims.out.h <= Bound
             /\ OutLonger = Bound
             /\ Abs(OutShorter * Longer - Shorter * Bound) < Longer

\* C7 as stated: the shorter side is rounded to the nearest integer, and
\* 1920x1080 at scale 1/3 becomes 298x168.
C7_RoundedToNearest ==
    /\ Resized => 2 * Abs(OutShorter * Longer - Shorter * Bound) <= Longer
    /\ (dims.via = "variant" /\ dims.w = 1920 /\ dims.h = 1080 /\ dims.scale = 3)
          => dims.out = [w |-> 298, h |-> 168]

\* C7 amended: the shorter side is truncated, never rounded up: it does not
\* exceed shorter * bound / longer and is at most one pixel below it; and
\* 1920x1080 at scale 1/3 (bound 298) becomes 298x167.
C7_Truncated ==
    /\ Resized => /\ OutShorter * Longer <= Shorter * Bound
                  /\ (OutShorter + 1) * Longer >= Shorter * Bound
    /\ (dims.via = "variant" /\ dims.w = 1920 /\ dims.h = 1080 /\ dims.scale = 3)
          => /\ Bound = 298
             /\ dims.out = [w |-> 298, h |-> 167]

C7_Witness ==
    /\ dims.via = "variant" /\ dims.w = 1920 /\ dims.h = 1080 /\ dims.scale = 3
    /\ dims.out.h = 167

----------------------------------------------------------------------------
(* Checking the artifact names on every pair of the sweep lists *)

NameFiles == {"in/a.png", "in/sub/a.JPG", "in/b.jpeg"}

\* lines 318-326 applied to the sampled triple
NameJson ==
    /\ names.kind = "none"
    /\ names' = [names EXCEPT !.kind = "json",
                    !.out = json_filename(splitext_name(basename(names.file)),
                                          scales[names.scale],
                                          qualities[names.quality])]
    /\ UNCHANGED <<sweepVars, dims, wrap>>

\* lines 277-285 applied to the sampled triple
NameCombined ==
    /\ names.kind = "none"
    /\ names' = [names EXCEPT !.kind = "combined",
                    !.out = combined_filename(splitext_name(basename(names.file)),
                                              scales[names.scale],
                                              qualities[names.quality])]
    /\ UNCHANGED <<sweepVars, dims, wrap>>

NextNaming == NameJson \/ NameCombined

InitNaming ==
    /\ SweepIdle
    /\ dims = NoDims
    /\ wrap = NoWrap
    /\ names \in [file : NameFiles, scale : 1..Len(scales),
                  quality : 1..Len(qualities), kind : {"none"}, out : {""}]

SpecNaming == InitNaming /\ [][NextNaming]_vars

NameIsOne == IsOne(scales[names.scale])
NameQuality == qualities[names.quality]
HasOriginal == Contains(names.out, "_original")
HasQualitySuffix == Contains(names.out, "_q" \o str(NameQuality))
HasScaleSuffix == Contains(names.out, "_s" \o str(scale_percent(scales[names.scale])))

\* C4 as stated: scale 1.0 and quality 100 give the literal "original" and
\* neither suffix; scale 1.0 and another quality give the quality suffix and
\* no scale suffix; another scale and quality 100 give the scale suffix and
\* no quality suffix.
C4_NamingLaw ==
    names.kind # "none" =>
        /\ (NameIsOne /\ NameQuality = 100)
              => HasOriginal /\ ~HasQualitySuffix /\ ~HasScaleSuffix
        /\ (NameIsOne /\ NameQuality # 100)
              => HasQualitySuffix /\ ~HasScaleSuffix /\ ~HasOriginal
        /\ (~NameIsOne /\ NameQuality = 100)
              => HasScaleSuffix /\ ~HasQualitySuffix

\* C4 amended: as stated for scale 1.0; with another scale the name carries
\* the scale suffix and the quality suffix, for quality 100 as for the others.
C4_NamingLawAmended ==
    names.kind # "none" =>
        /\ (NameIsOne /\ NameQuality = 100)
              => HasOriginal /\ ~HasQualitySuffix /\ ~HasScaleSuffix
        /\ (NameIsOne /\ NameQuality # 100)
              => HasQualitySuffix /\ ~HasScaleSuffix /\ ~HasOriginal
        /\ ~NameIsOne
              => HasScaleSuffix /\ HasQualitySuffix /\ ~HasOriginal

C4_Witness ==
    /\ names.kind = "combined"
    /\ names.file = "in/a.png" /\ names.scale = 2 /\ NameQuality = 100
    /\ names.out = "a_s66_q100_combined.jpg"

----------------------------------------------------------------------------
(* The greedy word wrap of create_side_by_side_image, lines 255-274 *)

font_size == 14

\* font_size * 0.6: for font_size = 14 the product is the double nearest to
\* 42/5 (14 * 0.6 == 8.4 in Python)
glyph_width == FloatDiv(3 * font_size, 5)

\* int(n * (font_size * 0.6))
est_chars(n) == IF n = 0 THEN 0 ELSE FloatMulTrunc(n, glyph_width)

\* int(len(text) * (font_size * 0.6)), lines 258 and 263
est_width(text) == est_chars(Len(text))

RECURSIVE SplitFrom(_, _, _, _)
SplitFrom(s, i, word, acc) ==
    IF i > Len(s) THEN (IF word = "" THEN acc ELSE Append(acc, word))
    ELSE IF CharAt(s, i) = " "
         THEN SplitFrom(s, i + 1, "", IF word = "" THEN acc ELSE Append(acc, word))
         ELSE SplitFrom(s, i + 1, word \o CharAt(s, i), acc)

\* str.split(): the maximal runs of non-blank characters
split(s) == SplitFrom(s, 1, "", <<>>)

RECURSIVE WrapWordsDropping(_, _, _, _, _)
\* a wrap that starts the new line empty, losing the word that overflowed
WrapWordsDropping(words, k, current_line, text_width, drawn) ==
    IF k > Len(words)
    THEN IF current_line # "" THEN Append(drawn, current_line) ELSE drawn
    ELSE LET test_line == IF current_line # "" THEN current_line \o " " \o words[k]
                          ELSE words[k]
         IN  IF est_width(test_line) < text_width - 20
             THEN WrapWordsDropping(words, k + 1, test_line, text_width, drawn)
             ELSE WrapWordsDropping(words, k + 1, "", text_width,
                                    Append(drawn, current_line))

RECURSIVE WrapWords(_, _, _, _, _)
\* lines 261-271: the lines drawn for words[k..], given the line being built
WrapWords(words, k, current_line, text_width, drawn) ==
    IF k > Len(words)
    THEN IF current_line # "" THEN Append(drawn, current_line) ELSE drawn
    ELSE LET test_line == IF current_line # "" THEN current_line \o " " \o words[k]
                          ELSE words[k]
         IN  IF est_width(test_line) < text_width - 20
             THEN WrapWords(words, k + 1, test_line, text_width, drawn)
             ELSE WrapWords(words, k + 1, words[k], text_width,
                            Append(drawn, current_line))

\* line 258: the line is too long for the panel
NeedsWrap(line, text_width) == est_width(line) > text_width - 20

\* lines 256-274 for one line of the response: the strings passed to draw.text
draw_lines(line, text_width) ==
    IF NeedsWrap(line, text_width)
    THEN WrapWords(split(line), 1, "", text_width, <<>>)
    ELSE <<line>>

Alphabet == {"a", "b", " "}

RECURSIVE Strings(_)
\* the strings over Alphabet of length at most n
Strings(n) ==
    IF n = 0 THEN {""}
    ELSE LET S == Strings(n - 1)
         IN  S \cup {s \o c : s \in S, c \in Alphabet}

\* widths of the text panel (the display width of the image)
TextWidths == {40, 50, 60, 62}

DrawParagraph ==
    /\ ~wrap.done
    /\ wrap' = [wrap EXCEPT !.done = TRUE,
                   !.lines = draw_lines(wrap.line, wrap.text_width)]
    /\ UNCHANGED <<sweepVars, dims, names>>

NextWrap == DrawParagraph

InitWrap ==
    /\ SweepIdle
    /\ dims = NoDims
    /\ names = NoNames
    /\ wrap \in [line : Strings(MaxParagraphLen), text_width : TextWidths,
                 done : {FALSE}, lines : {<<>>}]

SpecWrap == InitWrap /\ [][NextWrap]_vars

\* the number N of characters a line can hold: the longest text whose
\* estimated width is below the usable width
UsableChars(text_width) ==
    CHOOSE n \in 0..text_width :
        /\ est_chars(n) < text_width - 20
        /\ est_chars(n + 1) >= text_width - 20

RECURSIVE Flatten(_)
Flatten(seqs) == IF seqs = <<>> THEN <<>> ELSE Head(seqs) \o Flatten(Tail(seqs))

WordsDrawn == Flatten([k \in 1..Len(wrap.lines) |-> split(wrap.lines[k])])

\* C8: a word longer than N characters is drawn alone and whole on its own
\* line; and the lines drawn for a wrapped paragraph hold exactly the
\* paragraph's words, each once and in their order.
C8_WrapKeepsWords ==
    wrap.done =>
        /\ \A k \in 1..Len(wrap.lines) :
              \A j \in 1..Len(split(wrap.lines[k])) :
                 Len(split(wrap.lines[k])[j]) > UsableChars(wrap.text_width)
                    => wrap.lines[k] = split(wrap.lines[k])[j]
        /\ \A j \in 1..Len(split(wrap.line)) :
              Len(split(wrap.line)[j]) > UsableChars(wrap.text_width)
                 => \E k \in 1..Len(wrap.lines) : wrap.lines[k] = split(wrap.line)[j]
        /\ NeedsWrap(wrap.line, wrap.text_width) => WordsDrawn = split(wrap.line)

C8_Witness ==
    /\ wrap.done
    /\ wrap.line = "a bbb a"
    /\ wrap.text_width = 40
    /\ wrap.lines = <<"a", "bbb", "a">>

====
